---- MODULE Spec2Model ----
(***************************************************************************)
(* Model of vk_album_downloader.py: the paginated scrape loop with its     *)
(* checkpoint file (AlbumScraper.fetch_batch, scrape_all_urls,             *)
(* _append_to_checkpoint), the semaphore-gated download phase              *)
(* (AlbumScraper.download_one, download_all) and async_main's call of one  *)
(* after the other.                                                        *)
(*                                                                         *)
(* A URL is a string, modelled as a sequence of character codes; code 0 is *)
(* a blank.  <<>> is the empty string.  Strings are ordered as Python      *)
(* orders str: lexicographically by code.                                  *)
(***************************************************************************)
EXTENDS Integers, Sequences, FiniteSets, TLC

\* ------------------------------------------------------------------ bounds

\* Total number of url(...) entries over all pages of the gallery.
MaxEntries == 4

\* Length of the URL list handed to download_all.
MaxTasks == 3

\* Largest configured Settings.concurrent_downloads.
MaxLimit == 2

\* ------------------------------------------------------- program constants

\* Faulty variant: the offset advances by two pages.
MutStepTwoPages == 40 + 40

\* Settings.offset_step
offset_step == 40

\* Faulty variant: one attempt more than stop_after_attempt(3) allows.
MutStopAfterAttempt4 == 3 + 1

\* stop_after_attempt(3) of fetch_batch
FetchStopAfterAttempt == 3

\* ----------------------------------------------------------------- strings

Range(s) == {s[i] : i \in 1..Len(s)}

NoDup(s) == \A i, j \in 1..Len(s) : s[i] = s[j] => i = j

RECURSIVE LStrip(_)
LStrip(s) == IF s # <<>> /\ s[1] = 0 THEN LStrip(Tail(s)) ELSE s

RECURSIVE RStrip(_)
RStrip(s) ==
  IF s # <<>> /\ s[Len(s)] = 0 THEN RStrip(SubSeq(s, 1, Len(s) - 1)) ELSE s

\* str.strip() applied to a line read back from the checkpoint file
Strip(s) == LStrip(RStrip(s))

\* s < t on Python strings
RECURSIVE LexLess(_, _)
LexLess(s, t) ==
  IF s = <<>> THEN t # <<>>
  ELSE IF t = <<>> THEN FALSE
  ELSE IF s[1] # t[1] THEN s[1] < t[1]
  ELSE LexLess(Tail(s), Tail(t))

RECURSIVE SortedSeq(_)
SortedSeq(S) ==
  IF S = {} THEN <<>>
  ELSE LET m == CHOOSE x \in S : \A y \in S \ {x} : LexLess(x, y)
       IN  <<m>> \o SortedSeq(S \ {m})

\* Faulty variant: the final list keeps the accumulation order and its duplicates.
MutUniqueNoSet(all) == all

\* sorted(set(all_urls))
Unique(all) == SortedSeq(Range(all))

\* Faulty variant: every non-empty URL of the batch counts as new.
MutNewUrlsNoMembership(b, all) == SelectSeq(b, LAMBDA u : u # <<>>)

\* [u for u in batch if u and u not in all_urls]
NewUrls(b, all) == SelectSeq(b, LAMBDA u : u # <<>> /\ u \notin Range(all))

\* Faulty variant: the page at offset 40 never ends the loop.
MutBreakLate(new, off) == new = <<>> /\ off > offset_step

\* if not new_urls and offset > 0: break
BreakNoNew(new, off) == new = <<>> /\ off > 0

\* Faulty variant: an empty first page does not abort.
MutNoAbort(b, off) == FALSE

\* if not batch and offset == 0: break
AbortFirstEmpty(b, off) == b = <<>> /\ off = 0

\* [u.strip() for u in existing], existing being f.readlines()
ReadLines(lines) == [i \in 1..Len(lines) |-> Strip(lines[i])]

\* all_urls.extend([u.strip() for u in existing]) when the file exists
LoadCheckpoint(exists, lines) == IF exists THEN ReadLines(lines) ELSE <<>>

\* Faulty variant: the checkpoint is opened with 'w' instead of 'a'.
MutTruncate(lines, new) == new

\* aiofiles.open(self.url_log, 'a') and f.writelines(u + '\n' for u in urls)
Appended(lines, new) == lines \o new

\* retry_if_exception_type(httpx.HTTPError) | retry_if_exception_type(asyncio.TimeoutError)
FetchRetryable(e) == e \in {"HTTPError", "TimeoutError"}

\* ------------------------------------------------------------- the gallery

Plain == {<<1>>, <<2>>, <<3>>}

\* what re.findall(r'url\((.*?)\)') can yield: URLs, and '' for url()
Extracted == Plain \cup {<<>>}

\* a URL left in the checkpoint by a run against an earlier state of the album
Stale == <<1, 1>>

\* a checkpoint line with a leading blank, as url( ...) leaves one
Padded == <<0, 1>>

\* scraped_urls.txt as an earlier run may have left it
InitLogs == {<<Stale>>, <<Padded>>}

PagesOfLen(n) == [1..n -> Extracted]

RECURSIVE GalleriesOf(_)
\* sequences of non-empty pages holding e entries in all
GalleriesOf(e) ==
  IF e = 0 THEN {<<>>}
  ELSE UNION {{<<p>> \o g : p \in PagesOfLen(n), g \in GalleriesOf(e - n)} : n \in 1..e}

Galleries == UNION {GalleriesOf(e) : e \in 0..MaxEntries}

Flatten(g) == UNION {Range(g[i]) : i \in 1..Len(g)}

RECURSIVE EntriesOf(_)
\* number of url(...) entries over all pages of g
EntriesOf(g) == IF g = <<>> THEN 0 ELSE Len(Head(g)) + EntriesOf(Tail(g))

VARIABLES
  gallery,      \* the album on the server: page i+1 answers offset 40*i
  url_log,      \* lines of scraped_urls.txt (without the newline)
  log_exists,   \* scraped_urls.txt exists
  log0,         \* url_log when the current run started
  init_exists,  \* log_exists in the initial state
  spc,          \* position of scrape_all_urls
  offset,
  all_urls,
  batch,
  new_urls,
  attempt,      \* tenacity's attempt_number in fetch_batch
  posts,        \* POSTs issued by the current fetch_batch call
  tfails,       \* retryable failures seen by the current fetch_batch call
  err,          \* exception that left scrape_all_urls
  fetched,      \* offsets whose fetch_batch call returned, this run
  batches,      \* the lists those calls returned
  loaded,       \* the checkpoint's URLs as read when this run started
  malformed,    \* a body that is not the album's page was served this run
  result        \* value returned by scrape_all_urls

svars == <<gallery, url_log, log_exists, log0, init_exists, spc, offset, all_urls,
           batch, new_urls, attempt, posts, tfails, err, fetched, batches, loaded,
           malformed, result>>

\* ---------------------------------------------------------- download phase

\* stop_after_attempt(3) of download_one
GetStopAfterAttempt == 3

\* Faulty variant: the retry predicate matches no exception the GET raises.
MutGetNeverRetry(e) == FALSE

\* retry_if_exception_type(httpx.HTTPError) of download_one
GetRetryable(e) == e = "HTTPError"

\* Faulty variant: except httpx.HTTPError instead of except Exception.
MutCaughtHTTPErrorOnly(e) == e = "HTTPError"

\* except Exception as e
Caught(e) == e \in {"HTTPError", "OtherError", "OSError"}

\* Faulty variant: the semaphore never blocks.
MutNeverLocked(v) == FALSE

\* asyncio.Semaphore: acquire() suspends while no slot is free
SemLocked(v) == v = 0

\* Faulty variant: leaving `async with sem` gives no slot back.
MutNoRelease(v) == v

\* Semaphore.release() on leaving `async with sem`
Release(v) == v + 1

\* Faulty variant: the existence check is dropped.
MutNeverExists(f) == FALSE

\* out_path.exists()
Exists(f) == f # "absent"

\* f"{index:04d}"
Pad4(i) == <<(i \div 1000) % 10, (i \div 100) % 10, (i \div 10) % 10, i % 10>>

\* Path(url.split('?', 1)[0]).suffix or '.jpg': of the modelled URLs, <<2>>
\* stands for a path ending in .png, <<3>> for one ending in .jpg, the
\* others have no suffix
FileExt(u) == IF u = <<2>> THEN ".png" ELSE ".jpg"

\* Faulty variant: the file name is built without the index.
MutOutPathNoIndex(u, i) == <<Pad4(1), FileExt(u)>>

\* out_path of download_one(url, index, sem)
OutPath(u, i) == <<Pad4(i), FileExt(u)>>

\* the URLs download_all is handed
DownloadUrls == {<<c>> : c \in 1..MaxTasks}

\* lists scrape_all_urls can return: sorted, duplicate-free, not empty
DownloadLists == {SortedSeq(S) : S \in SUBSET DownloadUrls \ {{}}}

VARIABLES
  urls,         \* the list download_all was called with
  limit,        \* Settings.concurrent_downloads
  sem,          \* free slots of the semaphore
  files,        \* out_path -> "absent", "partial" (created, body not written), "complete"
  files0,       \* files when download_all was called
  failed_log,   \* lines of failed_downloads.txt
  dl,           \* position of download_all
  tpc,          \* position of each download_one task
  attempts,     \* GETs made by the AsyncRetrying loop each task is in (attempt_number - 1)
  requested,    \* tasks that issued a GET
  got,          \* tasks whose GET succeeded
  held,         \* tasks that acquired a slot
  logged,       \* tasks that appended their URL to failed_downloads.txt
  existed,      \* tasks whose out_path existed when download_one looked
  fs_fault,     \* a file operation of the download phase raised OSError
  cause,        \* the exception each task's try block holds ("none": the last operation succeeded)
  run           \* number of the download_all call on this directory

dvars == <<urls, limit, sem, files, files0, failed_log, dl, tpc, attempts, requested, got,
           held, logged, existed, fs_fault, cause, run>>

vars == <<svars, dvars>>

Tasks == 1..Len(urls)

Path(i) == OutPath(urls[i], i)

\* tasks inside `async with sem`
Holding == {i \in Tasks : tpc[i] \in {"get", "open", "write", "log"}}

\* tasks whose coroutine has ended
Finished == {i \in Tasks : tpc[i] \in {"skipped", "written", "logged", "raised", "cancelled"}}

\* the download phase before download_all is called
DownloadIdle ==
  /\ urls = <<>>
  /\ limit = 0
  /\ sem = 0
  /\ files = <<>>
  /\ files0 = <<>>
  /\ failed_log = <<>>
  /\ dl = "idle"
  /\ tpc = <<>>
  /\ attempts = <<>>
  /\ requested = {}
  /\ got = {}
  /\ held = {}
  /\ logged = {}
  /\ existed = {}
  /\ fs_fault = FALSE
  /\ cause = <<>>
  /\ run = 0

\* page answering `off`; past the last page the album has nothing to show
Page(g, off) ==
  IF off \div offset_step < Len(g) THEN g[(off \div offset_step) + 1] ELSE <<>>

\* the well-formed response body: an object whose payload[1] holds the
\* page's background-image fragment
PayloadBody(g, off) == [kind |-> "payload", urls |-> Page(g, off)]

\* bodies of another shape: text that is not JSON; JSON that is not an
\* object; an object without 'payload'; a payload of fewer than two
\* elements; a payload[1] that cannot be iterated (a number, null); a
\* payload[1] that holds no fragment
MalformedKinds == {"not_json", "not_object", "no_payload", "short_payload",
                   "fragments_not_iterable", "no_fragment"}

MalformedBodies == {[kind |-> k, urls |-> <<>>] : k \in MalformedKinds}

\* fetch_batch after the response arrived: the list returned, or the
\* exception raised (orjson.loads raises ValueError, which is caught;
\* data.get on a non-dict raises AttributeError; iterating a non-iterable
\* payload[1] raises TypeError)
ParseBody(body) ==
  CASE body.kind = "payload"       -> [raised |-> FALSE, exc |-> "none", urls |-> body.urls]
    [] body.kind = "not_json"      -> [raised |-> FALSE, exc |-> "none", urls |-> <<>>]
    [] body.kind = "not_object"    -> [raised |-> TRUE, exc |-> "AttributeError", urls |-> <<>>]
    [] body.kind = "no_payload"    -> [raised |-> FALSE, exc |-> "none", urls |-> <<>>]
    [] body.kind = "short_payload" -> [raised |-> FALSE, exc |-> "none", urls |-> <<>>]
    [] body.kind = "fragments_not_iterable" ->
                                      [raised |-> TRUE, exc |-> "TypeError", urls |-> <<>>]
    [] body.kind = "no_fragment"   -> [raised |-> FALSE, exc |-> "none", urls |-> <<>>]

Init ==
  /\ gallery \in Galleries
  /\ \/ log_exists = FALSE /\ url_log = <<>>
     \/ log_exists = TRUE /\ url_log \in InitLogs
  /\ init_exists = log_exists
  /\ log0 = url_log
  /\ spc = "load"
  /\ offset = 0
  /\ all_urls = <<>>
  /\ batch = <<>>
  /\ new_urls = <<>>
  /\ attempt = 1
  /\ posts = 0
  /\ tfails = 0
  /\ err = "none"
  /\ fetched = <<>>
  /\ batches = <<>>
  /\ loaded = <<>>
  /\ malformed = FALSE
  /\ result = <<>>
  /\ DownloadIdle

\* scrape_all_urls up to the first fetch_batch call
scrape_load ==
  /\ spc = "load"
  /\ all_urls' = LoadCheckpoint(log_exists, url_log)
  /\ loaded' = ReadLines(url_log)
  /\ offset' = 0
  /\ attempt' = 1
  /\ posts' = 0
  /\ tfails' = 0
  /\ spc' = "post"
  /\ UNCHANGED <<gallery, url_log, log_exists, log0, init_exists, batch, new_urls,
                 err, fetched, batches, malformed, result>>

\* the rest of the loop body once fetch_batch returned b, up to the next await
AfterBatch(b) ==
  LET new == NewUrls(b, all_urls) IN
  /\ batch' = b
  /\ new_urls' = new
  /\ fetched' = Append(fetched, offset)
  /\ batches' = Append(batches, b)
  /\ IF BreakNoNew(new, offset)
     THEN /\ spc' = "returned"
          /\ result' = Unique(all_urls)
          /\ UNCHANGED <<all_urls, offset>>
     ELSE IF new # <<>>
     THEN /\ all_urls' = all_urls \o new
          /\ spc' = "append"
          /\ UNCHANGED <<offset, result>>
     ELSE IF AbortFirstEmpty(b, offset)
     THEN /\ spc' = "returned"
          /\ result' = Unique(all_urls)
          /\ UNCHANGED <<all_urls, offset>>
     ELSE /\ offset' = offset + offset_step
          /\ spc' = "sleep"
          /\ UNCHANGED <<all_urls, result>>

\* the POST answers 2xx with `body`; the body is parsed; the loop goes on
fetch_batch_ok(body) ==
  /\ spc = "post"
  /\ posts' = posts + 1
  /\ malformed' = (malformed \/ body \in MalformedBodies)
  /\ LET p == ParseBody(body) IN
     IF p.raised
     THEN /\ spc' = "raised"
          /\ err' = p.exc
          /\ UNCHANGED <<all_urls, batch, new_urls, offset, fetched, batches, result>>
     ELSE /\ AfterBatch(p.urls)
          /\ err' = err
  /\ UNCHANGED <<gallery, url_log, log_exists, log0, init_exists, attempt, tfails, loaded>>

\* the POST (or raise_for_status) raises e
fetch_batch_fail(e) ==
  /\ spc = "post"
  /\ posts' = posts + 1
  /\ IF FetchRetryable(e)
     THEN /\ tfails' = tfails + 1
          /\ IF attempt >= FetchStopAfterAttempt
             THEN spc' = "raised" /\ err' = e /\ attempt' = attempt
             ELSE spc' = "post" /\ err' = err /\ attempt' = attempt + 1
     ELSE /\ spc' = "raised" /\ err' = e /\ attempt' = attempt /\ tfails' = tfails
  /\ UNCHANGED <<gallery, url_log, log_exists, log0, init_exists, offset, all_urls,
                 batch, new_urls, fetched, batches, loaded, malformed, result>>

\* await self._append_to_checkpoint(new_urls), then lines 188-193
append_to_checkpoint ==
  /\ spc = "append"
  /\ url_log' = Appended(url_log, new_urls)
  /\ log_exists' = TRUE
  /\ IF AbortFirstEmpty(batch, offset)
     THEN /\ spc' = "returned"
          /\ result' = Unique(all_urls)
          /\ offset' = offset
     ELSE /\ spc' = "sleep"
          /\ offset' = offset + offset_step
          /\ result' = result
  /\ UNCHANGED <<gallery, log0, init_exists, all_urls, batch, new_urls, attempt,
                 posts, tfails, err, fetched, batches, loaded, malformed>>

\* asyncio.sleep is over: the next iteration calls fetch_batch
scrape_sleep_done ==
  /\ spc = "sleep"
  /\ spc' = "post"
  /\ attempt' = 1
  /\ posts' = 0
  /\ tfails' = 0
  /\ UNCHANGED <<gallery, url_log, log_exists, log0, init_exists, offset, all_urls,
                 batch, new_urls, err, fetched, batches, loaded, malformed, result>>

\* KeyboardInterrupt / the process is killed while the scrape awaits
scrape_interrupt ==
  /\ spc \in {"post", "append", "sleep"}
  /\ spc' = "killed"
  /\ UNCHANGED <<gallery, url_log, log_exists, log0, init_exists, offset, all_urls,
                 batch, new_urls, attempt, posts, tfails, err, fetched, batches, loaded,
                 malformed, result>>

\* the program is started again on the same directory
scrape_rerun ==
  /\ spc \in {"returned", "raised", "killed"}
  /\ spc' = "load"
  /\ log0' = url_log
  /\ offset' = 0
  /\ all_urls' = <<>>
  /\ batch' = <<>>
  /\ new_urls' = <<>>
  /\ attempt' = 1
  /\ posts' = 0
  /\ tfails' = 0
  /\ err' = "none"
  /\ fetched' = <<>>
  /\ batches' = <<>>
  /\ loaded' = <<>>
  /\ malformed' = FALSE
  /\ result' = <<>>
  /\ UNCHANGED <<gallery, url_log, log_exists, init_exists>>

Next ==
  \/ scrape_load /\ UNCHANGED dvars
  \/ \E body \in {PayloadBody(gallery, offset)} \cup MalformedBodies :
       fetch_batch_ok(body) /\ UNCHANGED dvars
  \/ \E e \in {"HTTPError", "TimeoutError", "OtherError"} :
       fetch_batch_fail(e) /\ UNCHANGED dvars
  \/ append_to_checkpoint /\ UNCHANGED dvars
  \/ scrape_sleep_done /\ UNCHANGED dvars
  \/ scrape_interrupt /\ UNCHANGED dvars
  \/ scrape_rerun /\ UNCHANGED dvars

Spec == Init /\ [][Next]_vars

\* Total number of url(...) entries of the gallery in a call followed to its end.
MaxScrapeEntries == 3

\* scrape_all_urls is called
InitScrape ==
  /\ Init
  /\ EntriesOf(gallery) <= MaxScrapeEntries

\* one call of scrape_all_urls, left to run: every await of the loop
\* completes (the POST answers or fails within its timeout, the append and
\* the sleep end) and the event loop then resumes the coroutine
NextScrape ==
  \/ scrape_load /\ UNCHANGED dvars
  \/ \E body \in {PayloadBody(gallery, offset)} \cup MalformedBodies :
       fetch_batch_ok(body) /\ UNCHANGED dvars
  \/ \E e \in {"HTTPError", "TimeoutError", "OtherError"} :
       fetch_batch_fail(e) /\ UNCHANGED dvars
  \/ append_to_checkpoint /\ UNCHANGED dvars
  \/ scrape_sleep_done /\ UNCHANGED dvars

SpecScrape == InitScrape /\ [][NextScrape]_vars /\ WF_vars(NextScrape)

\* ------------------------------------------------- download_all, download_one

\* the scrape phase once scrape_all_urls has returned `us`
ScrapeReturned(us) ==
  /\ gallery = <<>>
  /\ url_log = us
  /\ log_exists = TRUE
  /\ log0 = us
  /\ init_exists = TRUE
  /\ spc = "returned"
  /\ offset = 0
  /\ all_urls = us
  /\ batch = <<>>
  /\ new_urls = <<>>
  /\ attempt = 1
  /\ posts = 1
  /\ tfails = 0
  /\ err = "none"
  /\ fetched = <<0>>
  /\ batches = <<<<>>>>
  /\ loaded = us
  /\ malformed = FALSE
  /\ result = us

\* download_all(urls) has created the semaphore and one coroutine per URL
InitDL ==
  /\ urls \in DownloadLists
  /\ ScrapeReturned(urls)
  /\ limit \in 1..MaxLimit
  /\ sem = limit
  /\ files \in [{OutPath(urls[i], i) : i \in 1..Len(urls)} -> {"absent", "partial", "complete"}]
  /\ files0 = files
  /\ failed_log = <<>>
  /\ dl = "gather"
  /\ tpc = [i \in 1..Len(urls) |-> "start"]
  /\ attempts = [i \in 1..Len(urls) |-> 0]
  /\ requested = {}
  /\ got = {}
  /\ held = {}
  /\ logged = {}
  /\ existed = {}
  /\ fs_fault = FALSE
  /\ cause = [i \in 1..Len(urls) |-> "none"]
  /\ run = 1

\* gather schedules the tasks in list order and the event loop runs each
\* one's first step before it handles any completed I/O
Started == \A j \in Tasks : tpc[j] # "start"

\* a task resumes from a suspension while download_all awaits gather
Running == dl = "gather" /\ Started

\* download_one up to its first suspension: the existence check, then
\* `async with sem`, which takes a free slot at once or suspends
download_one_start(i) ==
  /\ dl = "gather" /\ tpc[i] = "start"
  /\ \A j \in 1..(i - 1) : tpc[j] # "start"
  /\ existed' = IF files[Path(i)] # "absent" THEN existed \cup {i} ELSE existed
  /\ IF Exists(files[Path(i)])
     THEN /\ tpc' = [tpc EXCEPT ![i] = "skipped"]
          /\ UNCHANGED <<sem, held>>
     ELSE IF SemLocked(sem)
     THEN /\ tpc' = [tpc EXCEPT ![i] = "wait"]
          /\ UNCHANGED <<sem, held>>
     ELSE /\ tpc' = [tpc EXCEPT ![i] = "get"]
          /\ sem' = sem - 1
          /\ held' = held \cup {i}
  /\ UNCHANGED <<urls, limit, run, cause, files, files0, failed_log, dl, attempts, requested, got,
                 logged, fs_fault>>

\* a suspended acquire() is woken by a release
download_one_acquire(i) ==
  /\ Running /\ tpc[i] = "wait"
  /\ ~SemLocked(sem)
  /\ tpc' = [tpc EXCEPT ![i] = "get"]
  /\ sem' = sem - 1
  /\ held' = held \cup {i}
  /\ UNCHANGED <<urls, limit, run, cause, files, files0, failed_log, dl, attempts, requested, got,
                 logged, existed, fs_fault>>

\* the GET answers 2xx
download_one_get_ok(i) ==
  /\ Running /\ tpc[i] = "get"
  /\ attempts' = [attempts EXCEPT ![i] = 0]
  /\ cause' = [cause EXCEPT ![i] = "none"]
  /\ requested' = requested \cup {i}
  /\ got' = got \cup {i}
  /\ tpc' = [tpc EXCEPT ![i] = "open"]
  /\ UNCHANGED <<urls, limit, run, sem, files, files0, failed_log, dl, held,
                 logged, existed, fs_fault>>

\* where an exception e raised inside the try block of task i lands
Handler(e) == IF Caught(e) THEN "log" ELSE "raised"

\* the GET (or raise_for_status) raises e
download_one_get_fail(i, e) ==
  /\ Running /\ tpc[i] = "get"
  /\ requested' = requested \cup {i}
  /\ cause' = [cause EXCEPT ![i] = e]
  /\ IF GetRetryable(e) /\ attempts[i] + 1 < GetStopAfterAttempt
     THEN /\ attempts' = [attempts EXCEPT ![i] = @ + 1]
          /\ UNCHANGED <<tpc, sem>>
     ELSE /\ attempts' = [attempts EXCEPT ![i] = 0]
          /\ tpc' = [tpc EXCEPT ![i] = Handler(e)]
          /\ sem' = IF Caught(e) THEN sem ELSE Release(sem)
  /\ UNCHANGED <<urls, limit, run, files, files0, failed_log, dl, got, held, logged,
                 existed, fs_fault>>

\* aiofiles.open(out_path, 'wb') creates or truncates the file, or raises
download_one_open(i, ok) ==
  /\ Running /\ tpc[i] = "open"
  /\ IF ok
     THEN /\ files' = [files EXCEPT ![Path(i)] = "partial"]
          /\ tpc' = [tpc EXCEPT ![i] = "write"]
          /\ UNCHANGED <<sem, fs_fault, cause>>
     ELSE /\ tpc' = [tpc EXCEPT ![i] = Handler("OSError")]
          /\ sem' = IF Caught("OSError") THEN sem ELSE Release(sem)
          /\ fs_fault' = TRUE
          /\ cause' = [cause EXCEPT ![i] = "OSError"]
          /\ UNCHANGED files
  /\ UNCHANGED <<urls, limit, run, files0, failed_log, dl, attempts, requested, got, held,
                 logged, existed>>

\* f.write(resp.content) and the close; on success the slot is released
download_one_write(i, ok) ==
  /\ Running /\ tpc[i] = "write"
  /\ IF ok
     THEN /\ files' = [files EXCEPT ![Path(i)] = "complete"]
          /\ tpc' = [tpc EXCEPT ![i] = "written"]
          /\ sem' = Release(sem)
          /\ UNCHANGED <<fs_fault, cause>>
     ELSE /\ tpc' = [tpc EXCEPT ![i] = Handler("OSError")]
          /\ sem' = IF Caught("OSError") THEN sem ELSE Release(sem)
          /\ fs_fault' = TRUE
          /\ cause' = [cause EXCEPT ![i] = "OSError"]
          /\ UNCHANGED files
  /\ UNCHANGED <<urls, limit, run, files0, failed_log, dl, attempts, requested, got, held,
                 logged, existed>>

\* the except block: append url + '\n' to failed_downloads.txt, release the
\* slot; an OSError here leaves download_one
download_one_log(i, ok) ==
  /\ Running /\ tpc[i] = "log"
  /\ sem' = Release(sem)
  /\ IF ok
     THEN /\ failed_log' = Append(failed_log, urls[i])
          /\ logged' = logged \cup {i}
          /\ tpc' = [tpc EXCEPT ![i] = "logged"]
          /\ UNCHANGED <<fs_fault, cause>>
     ELSE /\ tpc' = [tpc EXCEPT ![i] = "raised"]
          /\ fs_fault' = TRUE
          /\ cause' = [cause EXCEPT ![i] = "OSError"]
          /\ UNCHANGED <<failed_log, logged>>
  /\ UNCHANGED <<urls, limit, run, files, files0, dl, attempts, requested, got, held, existed>>

\* gather has a result: every task returned
GatherDone(pcs) == \A i \in DOMAIN pcs : pcs[i] \in {"skipped", "written", "logged"}

\* gather propagates the first exception of a task at once
GatherRaised(pcs) == \E i \in DOMAIN pcs : pcs[i] = "raised"

\* await asyncio.gather(*tasks, return_exceptions=False) returns
download_all_return ==
  /\ dl = "gather"
  /\ GatherDone(tpc)
  /\ dl' = "returned"
  /\ UNCHANGED <<urls, limit, run, cause, sem, files, files0, failed_log, tpc, attempts,
                 requested, got, held, logged, existed, fs_fault>>

\* await asyncio.gather(*tasks, return_exceptions=False) raises
download_all_raise ==
  /\ dl = "gather"
  /\ GatherRaised(tpc)
  /\ dl' = "raised"
  /\ UNCHANGED <<urls, limit, run, cause, sem, files, files0, failed_log, tpc, attempts,
                 requested, got, held, logged, existed, fs_fault>>

\* asyncio.run cancels the tasks still alive once async_main has raised
loop_teardown ==
  /\ dl = "raised"
  /\ dl' = "torn_down"
  /\ tpc' = [i \in Tasks |-> IF i \in Finished THEN tpc[i] ELSE "cancelled"]
  /\ attempts' = [i \in Tasks |-> 0]
  /\ sem' = sem + Cardinality(Holding)
  /\ UNCHANGED <<urls, limit, run, cause, files, files0, failed_log, requested, got, held,
                 logged, existed, fs_fault>>

NextDL ==
  \/ \E i \in Tasks : download_one_start(i) /\ UNCHANGED svars
  \/ \E i \in Tasks : download_one_acquire(i) /\ UNCHANGED svars
  \/ \E i \in Tasks : download_one_get_ok(i) /\ UNCHANGED svars
  \/ \E i \in Tasks, e \in {"HTTPError", "OtherError"} :
       download_one_get_fail(i, e) /\ UNCHANGED svars
  \/ \E i \in Tasks, ok \in BOOLEAN : download_one_open(i, ok) /\ UNCHANGED svars
  \/ \E i \in Tasks, ok \in BOOLEAN : download_one_write(i, ok) /\ UNCHANGED svars
  \/ \E i \in Tasks, ok \in BOOLEAN : download_one_log(i, ok) /\ UNCHANGED svars
  \/ download_all_return /\ UNCHANGED svars
  \/ download_all_raise /\ UNCHANGED svars
  \/ loop_teardown /\ UNCHANGED svars

SpecDL == InitDL /\ [][NextDL]_vars

\* ------------------------------------- download_all again on the same directory

\* Number of times the program is run on the directory.
MaxRuns == 2

\* the first download_all on a directory that holds no output file yet
InitRuns ==
  /\ InitDL
  /\ \A p \in DOMAIN files : files[p] = "absent"

\* KeyboardInterrupt, or the process is killed, while download_all awaits
\* gather: every task still alive ends without reaching the except block
\* (CancelledError is no Exception), a file opened and not yet written
\* stays as it is
download_interrupt ==
  /\ Running
  /\ dl' = "killed"
  /\ tpc' = [i \in Tasks |-> IF i \in Finished THEN tpc[i] ELSE "cancelled"]
  /\ attempts' = [i \in Tasks |-> 0]
  /\ sem' = sem + Cardinality(Holding)
  /\ UNCHANGED <<urls, limit, run, cause, files, files0, failed_log, requested, got,
                 held, logged, existed, fs_fault>>

\* the program is started again: the scrape returns the same list and
\* download_all(urls) builds a new semaphore and new coroutines; the output
\* files and failed_downloads.txt are what the earlier run left
download_rerun ==
  /\ dl \in {"returned", "torn_down", "killed"}
  /\ run < MaxRuns
  /\ run' = run + 1
  /\ dl' = "gather"
  /\ sem' = limit
  /\ files0' = files
  /\ tpc' = [i \in Tasks |-> "start"]
  /\ attempts' = [i \in Tasks |-> 0]
  /\ cause' = [i \in Tasks |-> "none"]
  /\ requested' = {}
  /\ got' = {}
  /\ held' = {}
  /\ logged' = {}
  /\ existed' = {}
  /\ fs_fault' = FALSE
  /\ UNCHANGED <<urls, limit, files, failed_log>>

NextRuns ==
  \/ NextDL
  \/ download_interrupt /\ UNCHANGED svars
  \/ download_rerun /\ UNCHANGED svars

SpecRuns == InitRuns /\ [][NextRuns]_vars

\* ------------------------------------------------------------- async_main

\* Faulty variant: download_all is called whatever the scrape ended with.
MutDownloadAfterRaise(pc, us) == pc \in {"returned", "raised"}

\* urls = await scraper.scrape_all_urls(); if not urls: return; an
\* exception of scrape_all_urls leaves async_main before download_all
CallsDownload(pc, us) == pc = "returned" /\ us # <<>>

\* await scraper.download_all(urls), up to gather; the output directory
\* holds no file yet
async_main_download_all ==
  /\ dl = "idle"
  /\ CallsDownload(spc, result)
  /\ urls' = result
  /\ limit' \in 1..MaxLimit
  /\ sem' = limit'
  /\ files' = [p \in {OutPath(result[i], i) : i \in 1..Len(result)} |-> "absent"]
  /\ files0' = files'
  /\ dl' = "gather"
  /\ tpc' = [i \in 1..Len(result) |-> "start"]
  /\ attempts' = [i \in 1..Len(result) |-> 0]
  /\ cause' = [i \in 1..Len(result) |-> "none"]
  /\ run' = 1
  /\ UNCHANGED <<failed_log, requested, got, held, logged, existed, fs_fault>>

\* Total number of url(...) entries of the gallery in a run of the whole program.
MaxMainEntries == 1

\* the program is started: Init, on a gallery small enough to follow the
\* run through both phases
InitMain ==
  /\ Init
  /\ EntriesOf(gallery) <= MaxMainEntries

\* one run of the program: the scrape, then the downloads
NextMain ==
  \/ scrape_load /\ UNCHANGED dvars
  \/ \E body \in {PayloadBody(gallery, offset)} \cup MalformedBodies :
       fetch_batch_ok(body) /\ UNCHANGED dvars
  \/ \E e \in {"HTTPError", "TimeoutError", "OtherError"} :
       fetch_batch_fail(e) /\ UNCHANGED dvars
  \/ append_to_checkpoint /\ UNCHANGED dvars
  \/ scrape_sleep_done /\ UNCHANGED dvars
  \/ async_main_download_all /\ UNCHANGED svars
  \/ NextDL

SpecMain == InitMain /\ [][NextMain]_vars

\* ---------------------------------------------------- download properties

\* number of lines of failed_downloads.txt that are u
FailedLines(u) == Cardinality({k \in 1..Len(failed_log) : failed_log[k] = u})

\* no output file existed when download_all was called
NoPreexisting == \A p \in DOMAIN files0 : files0[p] = "absent"

\* C4: at most `limit` tasks are between the start of their GET and the end
\* of their file write or failure-log append.
C4_ConcurrencyCap == Cardinality(Holding) <= limit

C4_Witness ==
  /\ limit = 2 /\ Len(urls) = 3
  /\ Cardinality(Holding) = 2
  /\ \E i, j, k \in Tasks : tpc[i] = "wait" /\ tpc[j] = "log" /\ tpc[k] = "write"

\* C5: with no output file there beforehand and the file system working,
\* no task raises and download_all does not raise; when it returns, the
\* output file of a task is complete if its GET succeeded and absent if
\* every GET of it failed, and failed_downloads.txt holds one line for each
\* task whose GETs all failed and no other line.
C5_FailureIsolation ==
  (NoPreexisting /\ ~fs_fault) =>
    /\ dl \notin {"raised", "torn_down"}
    /\ \A i \in Tasks : tpc[i] \notin {"raised", "cancelled"}
    /\ (dl = "gather" /\ Finished = Tasks) => GatherDone(tpc)
    /\ dl = "returned" =>
         /\ \A i \in Tasks :
              /\ files[Path(i)] = (IF i \in got THEN "complete" ELSE "absent")
              /\ FailedLines(urls[i]) = (IF i \in got THEN 0 ELSE 1)
         /\ Len(failed_log) = Cardinality(Tasks \ got)

C5_Witness ==
  /\ dl = "returned" /\ NoPreexisting /\ ~fs_fault
  /\ Len(urls) = 3 /\ limit = 2
  /\ got = {1, 3}
  /\ failed_log = <<urls[2]>>

\* C9: a task whose destination file existed when download_one looked
\* ends as skipped at once: it issues no GET, takes no slot, appends
\* nothing to failed_downloads.txt, and the file keeps its content.
C9_SkipExisting ==
  \A i \in existed :
    /\ tpc[i] = "skipped"
    /\ i \notin requested
    /\ i \notin held
    /\ i \notin logged
    /\ FailedLines(urls[i]) = 0
    /\ files[Path(i)] = files0[Path(i)]

C9_Witness ==
  /\ dl = "returned"
  /\ \E i, j, k \in Tasks :
       /\ i \in existed /\ files[Path(i)] = "partial"
       /\ tpc[j] = "written"
       /\ tpc[k] = "logged"

\* C10 (as claimed): whatever fails in one task, download_all neither
\* returns nor raises while another task is still waiting for a slot or
\* between its GET and its file write or failure-log append.
C10_WaitForAll ==
  dl \in {"returned", "raised"} =>
    \A i \in Tasks : tpc[i] \notin {"start", "wait", "get", "open", "write", "log"}

\* a run after the first finds out_path(i) created but never fully written
LeftPartial(i) == run > 1 /\ files0[Path(i)] = "partial"

\* C11 (as claimed): an output file that an interrupted run, or a run whose
\* write failed, left created but not fully written does not count as
\* downloaded: the next run does not skip its index, it issues the GET again.
C11_PartialRefetched ==
  \A i \in Tasks :
    LeftPartial(i) =>
      /\ tpc[i] # "skipped"
      /\ dl = "returned" => i \in requested

\* C12 (as claimed): when a run has completed and no output file is left
\* half-written, failed_downloads.txt lists exactly the URLs that have no
\* complete output file.
C12_FailedLogIsTodo ==
  (dl = "returned" /\ \A p \in DOMAIN files : files[p] # "partial") =>
    \A i \in Tasks : (FailedLines(urls[i]) >= 1) <=> (files[Path(i)] = "absent")

\* C15: a task issues at most 3 GETs; a GET is repeated only after a
\* failure with httpx.HTTPError (network errors and timeouts as httpx
\* raises them), and such a failure reaches the except block only on the
\* 3rd attempt; any other exception reaches it at once.  A GET that
\* succeeds on any attempt goes on to the file write; with the file system
\* working its file ends complete and its URL is not in the failure log.
\* A URL is appended to the failure log at most once, and exactly once
\* when its task ended in the except block.
C15_DownloadRetry ==
  /\ [](\A i \in Tasks :
         /\ attempts[i] <= 2
         /\ (tpc[i] = "get" /\ attempts[i] > 0) => cause[i] = "HTTPError"
         /\ FailedLines(urls[i]) = (IF i \in logged THEN 1 ELSE 0)
         /\ tpc[i] = "logged" <=> i \in logged
         /\ (i \in got /\ ~fs_fault /\ tpc[i] \notin {"open", "write", "cancelled"}) =>
              (files[Path(i)] = "complete" /\ i \notin logged))
  /\ [][\A i \in Tasks :
         tpc[i] = "get" =>
           /\ (tpc'[i] = "get" /\ attempts'[i] # attempts[i]) =>
                (attempts'[i] = attempts[i] + 1 /\ cause'[i] = "HTTPError")
           /\ (tpc'[i] = "log" /\ cause'[i] = "HTTPError") => attempts[i] = 2
           /\ (tpc'[i] # "get" /\ dl' = "gather") =>
                \/ tpc'[i] = "open" /\ i \in got'
                \/ tpc'[i] = "log" /\ cause'[i] \in {"HTTPError", "OtherError"}]_vars

C15_Witness ==
  /\ dl = "gather" /\ ~fs_fault
  /\ \E i, j, k \in Tasks :
       /\ tpc[i] = "logged" /\ cause[i] = "HTTPError"
       /\ tpc[j] = "logged" /\ cause[j] = "OtherError"
       /\ tpc[k] = "get" /\ attempts[k] = 2
  /\ Len(failed_log) = 2

\* C17: the free slots and the tasks inside `async with sem` always add up
\* to the configured capacity, whichever way tasks left the block (file
\* written, retries exhausted, write error, failed append to the failure
\* log), and every slot is free when download_all returns.
C17_SlotRelease ==
  /\ sem + Cardinality(Holding) = limit
  /\ sem >= 0
  /\ \A i \in Finished : i \in held => tpc[i] \in {"written", "logged", "raised", "cancelled"}
  /\ dl = "returned" => sem = limit

C17_Witness ==
  /\ dl = "returned" /\ limit = 2 /\ sem = 2
  /\ held = {1, 2, 3}
  /\ \E i, j, k \in Tasks :
       /\ tpc[i] = "written"
       /\ tpc[j] = "logged" /\ cause[j] = "HTTPError"
       /\ tpc[k] = "logged" /\ cause[k] = "OSError" /\ files[Path(k)] = "partial"

\* the tasks whose destination is p
Writers(p) == {i \in Tasks : Path(i) = p}

\* C20: the task of the i-th URL writes to the name built from index i, no
\* two tasks have the same destination, a task about to open its file
\* finds it as it saw it (absent) and a task writing finds it as it
\* created it; every change of an output file is made by the one task
\* that owns the path, in its own open or write step, and a file goes
\* from absent to created to complete once, never back.
C20_NoWriteRace ==
  /\ [](/\ \A i, j \in Tasks : Path(i) = Path(j) => i = j
        /\ \A i \in Tasks :
             /\ Path(i)[1] = <<0, 0, 0, i>>
             /\ Path(i) \in DOMAIN files
             /\ tpc[i] \in {"get", "open"} => files[Path(i)] = "absent"
             /\ tpc[i] = "write" => files[Path(i)] = "partial"
             /\ tpc[i] = "written" => files[Path(i)] = "complete")
  /\ [][\A p \in DOMAIN files :
          files'[p] # files[p] =>
            /\ Cardinality(Writers(p)) = 1
            /\ \A i \in Writers(p) :
                 \/ tpc[i] = "open" /\ tpc'[i] = "write"
                      /\ files[p] = "absent" /\ files'[p] = "partial"
                 \/ tpc[i] = "write" /\ tpc'[i] = "written"
                      /\ files[p] = "partial" /\ files'[p] = "complete"
            /\ \A j \in Tasks \ Writers(p) : tpc'[j] = tpc[j]]_vars

C20_Witness ==
  /\ limit = 2 /\ Len(urls) = 3
  /\ \E i, j, k \in Tasks :
       /\ i # j
       /\ tpc[i] = "write" /\ tpc[j] = "write"
       /\ FileExt(urls[i]) = FileExt(urls[j])
       /\ tpc[k] = "written"

\* ------------------------------------------------------ scrape properties

\* s is strictly increasing in the order of Python strings
StrictlySorted(s) == \A i, j \in 1..Len(s) : i < j => LexLess(s[i], s[j])

\* the URLs (non-empty strings) listed by the first n pages of g
UrlsOfPages(g, n) == UNION {Range(Page(g, offset_step * (i - 1))) : i \in 1..n} \ {<<>>}

\* page n (1-based) of g lists a URL that no earlier page lists
PageHasNew(g, n) == UrlsOfPages(g, n) # UrlsOfPages(g, n - 1)

\* g answers with n pages of unique URLs and then a page of known URLs
UniqueThenKnown(g, n) ==
  /\ \A i \in 1..n : PageHasNew(g, i)
  /\ ~PageHasNew(g, n + 1)

\* the run reads the album's own pages and started without a checkpoint
FreshRun == log0 = <<>> /\ ~malformed

\* C1: a run without checkpoint against a source that answers N >= 1 pages
\* of unique URLs and then a page of known URLs returns after exactly the
\* fetches at offsets 0, 40, ..., 40*N, with the URLs of all pages, each
\* once, in lexicographic order.
C1_Termination ==
  \A n \in 1..MaxEntries :
    (spc = "returned" /\ FreshRun /\ UniqueThenKnown(gallery, n)) =>
      /\ fetched = [i \in 1..(n + 1) |-> offset_step * (i - 1)]
      /\ Range(result) = UrlsOfPages(gallery, n + 1)
      /\ StrictlySorted(result)

C1_Witness ==
  /\ spc = "returned" /\ FreshRun /\ UniqueThenKnown(gallery, 2)
  /\ Len(fetched) = 3
  /\ Len(result) = 3
  /\ Page(gallery, 80) # <<>>
  /\ all_urls # result

\* C2 (as claimed): a run seeded from the checkpoint an interrupted run
\* left behind returns what an uninterrupted run from an empty checkpoint
\* returns, the URLs of every page of the gallery.  The runs start from no
\* checkpoint and every page of the gallery lists a URL of its own, so an
\* uninterrupted run reads every page.
C2_ResumeReturnsAll ==
  (spc = "returned" /\ ~init_exists /\ ~malformed
     /\ \A i \in 1..Len(gallery) : PageHasNew(gallery, i)) =>
    Range(result) = Flatten(gallery) \ {<<>>}

\* C3 (as claimed): the checkpoint file, duplicate-free at the start, holds
\* no URL on two lines when a run returns, and a run that loaded every URL
\* of the gallery leaves the file as it found it.
C3_CheckpointIdempotent ==
  spc = "returned" =>
    /\ NoDup(url_log)
    /\ (Flatten(gallery) \ {<<>>}) \subseteq Range(loaded) => url_log = log0

\* s is the beginning of t
IsPrefix(s, t) == Len(s) <= Len(t) /\ SubSeq(t, 1, Len(s)) = s

\* what follows the first n elements of s
Rest(s, n) == SubSeq(s, n + 1, Len(s))

\* C13 (as claimed): whenever a page fetch begins or is in flight, the lines
\* of scraped_urls.txt are the in-memory list all_urls, in the same order,
\* and the file still begins with what it held when the run started.
C13_CheckpointIsMemory ==
  spc = "post" => (url_log = all_urls /\ IsPrefix(log0, url_log))

\* C13 (amended): whenever a page fetch begins, scraped_urls.txt holds the
\* lines it had when the run started, unchanged, followed by the URLs this
\* run discovered, in discovery order; all_urls is those start lines with
\* surrounding blanks stripped, followed by the same URLs.  Every step
\* leaves the file's previous content as a prefix of the new content.
C13_CheckpointDurable ==
  [][/\ IsPrefix(url_log, url_log')
     /\ spc' = "post" =>
          /\ IsPrefix(log0', url_log')
          /\ IsPrefix(ReadLines(log0'), all_urls')
          /\ Rest(url_log', Len(log0')) = Rest(all_urls', Len(log0'))]_vars

C13_Witness ==
  /\ spc = "post" /\ offset = 2 * offset_step
  /\ log0 = <<Padded>>
  /\ Len(url_log) = 3
  /\ url_log # all_urls

\* C16 (as claimed): no response body makes scrape_all_urls raise: when it
\* raises, the exception is one the POST raised, never one raised while a
\* body that arrived was being taken apart.
C16_MalformedNeverFatal ==
  spc = "raised" => err \in {"HTTPError", "TimeoutError", "OtherError"}

RECURSIVE Accum(_, _)
\* all_urls after the loop body has handled the batches bs in turn
Accum(all, bs) ==
  IF bs = <<>> THEN all ELSE Accum(all \o NewUrls(Head(bs), all), Tail(bs))

\* C14: a third retryable failure of the page fetch at an offset ends
\* scrape_all_urls with that error, and once scrape_all_urls has raised,
\* download_all is never called: no task exists, no GET is issued, no
\* output file and no failure-log line is written; scraped_urls.txt holds
\* its lines from the start of the run followed by exactly the new URLs
\* of the pages fetched before the failing offset.
C14_ScrapeAbortNoDownload ==
  /\ tfails >= 3 => (spc = "raised" /\ FetchRetryable(err))
  /\ spc = "raised" =>
       /\ dl = "idle" /\ tpc = <<>>
       /\ requested = {}
       /\ files = <<>> /\ failed_log = <<>>
       /\ Len(fetched) = offset \div offset_step
       /\ url_log = log0 \o Rest(Accum(loaded, batches), Len(log0))

C14_Witness ==
  /\ spc = "raised" /\ err = "HTTPError" /\ tfails = 3
  /\ offset = offset_step
  /\ log0 = <<Stale>>
  /\ Len(url_log) = 2

\* the distinct URLs the pages of g draw from
UrlsOf(g) == Flatten(g) \ {<<>>}

\* C18: whatever the gallery and the checkpoint, a call of scrape_all_urls
\* whose awaits all complete ends (it returns, or a fetch_batch call
\* raises), and it never gets more than |U| + 2 page fetches answered,
\* U being the distinct URLs of the gallery's pages; when every fetch_batch
\* call returns, it ends by returning.
C18_ScrapeTerminates ==
  /\ [](Len(fetched) <= Cardinality(UrlsOf(gallery)) + 2)
  /\ <>(spc \in {"returned", "raised"})
  /\ [](spc # "raised") => <>(spc = "returned")

C18_Witness ==
  /\ spc = "returned"
  /\ Cardinality(UrlsOf(gallery)) = 2
  /\ Len(fetched) = 4
  /\ log0 # <<>>

\* C19: within a run the offsets whose fetch_batch call returned are 0, 40,
\* 80, ... in this order, none skipped, none twice, and the request in
\* flight is the one for the next offset; a retry leaves the offset and the
\* list of fetched offsets as they are; the offset changes only by +40, in
\* the step that ends an iteration, when the page's new URLs are in
\* all_urls and in scraped_urls.txt (or it is reset to 0 by a new run).
C19_SequentialPagination ==
  /\ [](/\ fetched = [i \in 1..Len(fetched) |-> 40 * (i - 1)]
        /\ spc \in {"post", "sleep"} => offset = 40 * Len(fetched)
        /\ spc = "append" => offset = 40 * (Len(fetched) - 1)
        /\ posts <= attempt)
  /\ [][/\ attempt' > attempt => (offset' = offset /\ fetched' = fetched /\ spc' = "post")
        /\ posts' \in {0, posts, posts + 1}
        /\ offset' # offset =>
             \/ spc' = "load" /\ offset' = 0
             \/ /\ offset' = offset + 40
                /\ spc' = "sleep"
                /\ Len(fetched') = Len(fetched) + (IF spc = "post" THEN 1 ELSE 0)
                /\ all_urls' = Accum(loaded', batches')
                /\ url_log' = log0' \o Rest(all_urls', Len(log0'))]_vars

C19_Witness ==
  /\ spc = "post" /\ attempt = 3
  /\ offset = 80
  /\ fetched = <<0, 40>>
  /\ Len(url_log) > Len(log0)

\* C6: fetch_batch never POSTs more than 3 times at an offset; a third
\* retryable failure raises that error out of fetch_batch, and a retryable
\* error leaves fetch_batch only after exactly 3 POSTs that all failed.
C6_RetryExhaustion ==
  /\ posts <= 3
  /\ tfails >= 3 => (spc = "raised" /\ FetchRetryable(err))
  /\ (spc = "raised" /\ err \in {"HTTPError", "TimeoutError"}) => (posts = 3 /\ tfails = 3)

C6_Witness ==
  spc = "raised" /\ err = "TimeoutError" /\ posts = 3 /\ tfails = 3 /\ offset = offset_step

\* the first fetch_batch call of this run returned an empty list
FirstPageEmpty == Len(batches) >= 1 /\ batches[1] = <<>>

\* C7 (as claimed): when the first page yields zero URLs, whatever the
\* checkpoint holds, offset 0 is the only offset fetched and the result is
\* empty.
C7_FirstPageEmptyReturnsEmpty ==
  FirstPageEmpty => (spc = "returned" /\ fetched = <<0>> /\ result = <<>>)

\* C7 (amended): when the first page yields zero URLs, offset 0 is the only
\* offset fetched and the run returns the checkpoint's URLs, each once, in
\* order; the result is empty exactly when the checkpoint holds no line.
C7_FirstPageEmptyReturnsCheckpoint ==
  FirstPageEmpty =>
    /\ spc = "returned"
    /\ fetched = <<0>>
    /\ Range(result) = Range(loaded)
    /\ StrictlySorted(result)
    /\ (result = <<>>) <=> (log0 = <<>>)

C7_Witness ==
  FirstPageEmpty /\ spc = "returned" /\ result = <<Stale>> /\ ~malformed

\* C8: the list scrape_all_urls returns holds no URL twice and holds every
\* URL of the checkpoint read at the start of the run.
C8_NoDupSuperset ==
  spc = "returned" => (NoDup(result) /\ Range(loaded) \subseteq Range(result))

C8_Witness ==
  /\ spc = "returned" /\ loaded # <<>> /\ ~NoDup(all_urls)
  /\ Len(fetched) >= 2
  /\ Range(loaded) # Range(result)

====
